---- MODULE Spec2Model ----
(***************************************************************************)
(* casa-kumis-backend, server.js: the submission-intake service.           *)
(*                                                                         *)
(* server.js holds three successive versions of the same Express server    *)
(* (lines 1-217, 219-459 and 461-720).  `variant` says which of the three  *)
(* is the running program; it is chosen once and never changes.            *)
(*                                                                         *)
(* Node runs every callback to its next `await` without interruption, so   *)
(* one action of the model is one such run: the rate-limit middleware, the *)
(* synchronous head of a handler, and then one action per awaited external *)
(* call (the call together with the code that resumes after it).           *)
(***************************************************************************)
EXTENDS Integers, Sequences, FiniteSets, TLC

VARIABLES
    variant,        \* which of the three server programs runs
    env,            \* process.env: which optional settings are set
    now,            \* wall clock, in minutes since start
    hits,           \* variant 1: const hits = new Map()  (key -> counter)
    arrivals,       \* observer: requests received, per limiter key
    forwarded,      \* observer: requests the limiter passed on (next()), per key
    throttled,      \* observer: 429 responses sent, per key
    reqs,           \* the submissions received so far, in order of arrival
    postulaciones,  \* table postulaciones: sequence of rows
    quejas,         \* table quejas: sequence of rows
    drive,          \* Google Drive: file id -> [parent, public]
    outbox,         \* mails handed to the transport, in order
    uuids           \* variant 1: number of genId() calls so far

vars == <<variant, env, now, hits, arrivals, forwarded, throttled, reqs,
          postulaciones, quejas, drive, outbox, uuids>>

-----------------------------------------------------------------------------
(* Bounds of the model *)

MaxReq == 2          \* submissions in one run
MaxLoaded == 1       \* submissions in one run under load
MaxArrivals == 62    \* requests of any kind in one run under load
WarmUp == 59         \* length of the burst that opens a run under load
MaxTicks == 1        \* times the clock moves in one run under load
MaxTyped == 2        \* submissions in one run with attachments of any type
MaxProbes == 2       \* submissions in one run across the hours

(* Program constants *)

Limit == 60          \* if (hits.get(k) > 60)
MinutesPerHour == 60 \* new Date().getMinutes() is the minute of the hour

Variants == {1, 2, 3}
Ips == {"ip1", "ip2"}
Kinds == {"formulario", "quejas"}
TickSteps == {1, MinutesPerHour}
Ops == {"create", "update", "permit", "insert", "mail"}

\* An attachment URL: the text before the file id, and the file id.
NullUrl == [base |-> "null", id |-> 0]    \* variant 1: let drive_file_url = null
EmptyUrl == [base |-> "", id |-> 0]       \* variants 2 and 3: let fileUrl = ''

-----------------------------------------------------------------------------
(* Map helpers: a JS Map is a function on the set of keys it holds *)

MapGet(m, k) == IF k \in DOMAIN m THEN m[k] ELSE 0

MapSet(m, k, v) == [x \in DOMAIN m \cup {k} |-> IF x = k THEN v ELSE m[x]]

EmptyMap == [x \in {} |-> 0]

RECURSIVE MapSum(_)
MapSum(m) ==
    IF DOMAIN m = {} THEN 0
    ELSE LET k == CHOOSE x \in DOMAIN m : TRUE
         IN m[k] + MapSum([x \in DOMAIN m \ {k} |-> m[x]])

-----------------------------------------------------------------------------
(* The rate limiter (variant 1, server.js:94-101) *)

\* Variation: the key holds the minute since the start, so that the bucket
\* of one hour is not the bucket of the next.
LimiterKeyByMinute(ip, t) == <<ip, t>>

\* const k = `${ip}:${new Date().getMinutes()}`
LimiterKey(ip, t) == <<ip, t % MinutesPerHour>>

\* Variation: the old count is forgotten, hits.set(k, 1).
HitsAfterForgetful(h, k) == MapSet(h, k, 1)

\* hits.set(k, (hits.get(k) || 0) + 1)
HitsAfter(h, k) == MapSet(h, k, MapGet(h, k) + 1)

\* Variation: >= in place of >.
OverLimitEarly(h, k) == MapGet(h, k) >= Limit

\* if (hits.get(k) > 60) return res.status(429)...
OverLimit(h, k) == MapGet(h, k) > Limit

\* Only variant 1 installs the middleware.
HasLimiter(v) == v = 1

\* Variation: the `return` is missing and next() runs after the 429.
AfterLimiterNoReturn(over) == "handler"

\* Where a request goes after the middleware: `return res.status(429)` ends
\* it, next() hands it to the route.
AfterLimiter(over) == IF over THEN "done" ELSE "handler"

-----------------------------------------------------------------------------
(* upload.single('archivo'): multer in front of both routes *)

\* The whitelist of variant 1's fileFilter.
Whitelist == {"application/pdf", "application/msword",
              "application/vnd.openxmlformats-officedocument.wordprocessingml.document",
              "image/jpeg", "image/png"}

\* The mimetypes a run draws from: one the whitelist holds, one it does not.
MimeTypes == {"application/pdf", "text/html"}

\* req.file is undefined: no file part, no mimetype.
NoMime == "none"

\* Only variant 1 gives multer a fileFilter; variants 2 and 3 call
\* multer({ storage }) and take every file.
HasFileFilter(v) == v = 1

\* cb(ok ? null : new Error('Tipo de archivo no permitido'))
FilterRejects(v, file, mime) == HasFileFilter(v) /\ file /\ mime \notin Whitelist

\* The Error reaches next(err); no error-handling middleware is installed,
\* and Express's own takes err.status, which a plain Error lacks: 500.
StatusOnFilterError(v) == 500

\* Where a request goes after multer: next(err) ends it, next() calls the route.
AfterMulter(rejected) == IF rejected THEN "done" ELSE "handler"

-----------------------------------------------------------------------------
(* The three versions of the two handlers *)

\* The guard at the head of the handler that answers 400.
\*   variant 1: if (!nombre || !email || ...) return res.status(400)
\*   variant 2: /api/formulario only: if (!archivo) return res.status(400)
\*   variant 3: none
Rejects(v, kind, fieldsOk, file) ==
    CASE v = 1 -> ~fieldsOk
      [] v = 2 -> kind = "formulario" /\ ~file
      [] v = 3 -> FALSE

\* The folder the handler uses: FOLDER_QUEJAS = QUEJAS_ID || FOLDER_ID
FolderSet(kind, e) ==
    IF kind = "quejas" THEN e.folderQuejasId \/ e.folderId ELSE e.folderId

\* Variation: the permission grant is left out of the upload stage.
UploadPlanNoGrant(v, kind, e) == <<"create">>

\* The awaited Drive calls of the upload stage, in program order.
\*   variant 1 uploadToDrive: files.create (parents in the body), permissions.create
\*   variant 2 inline:        files.create, files.update, permissions.create
\*   variant 3 subirAStorageDrive: files.create, [files.update if folderId], permissions.create
UploadPlan(v, kind, e) ==
    CASE v = 1 -> <<"create", "permit">>
      [] v = 2 -> <<"create", "update", "permit">>
      [] v = 3 -> IF FolderSet(kind, e) THEN <<"create", "update", "permit">>
                                       ELSE <<"create", "permit">>

\* The awaited call that notifies: variant 3 sends only if (process.env.EMAIL_TO).
NotifyPlan(v, e) == IF v = 3 /\ ~e.emailTo THEN <<>> ELSE <<"mail">>

\* All awaited external calls of one accepted submission, in program order.
Plan(v, kind, e, file) ==
    (IF file THEN UploadPlan(v, kind, e) ELSE <<>>) \o <<"insert">> \o NotifyPlan(v, e)

\* Variation: every variant starts from the empty string.
NoFileUrlEmpty(v) == EmptyUrl

\* The attachment URL a handler holds before any upload.
NoFileUrl(v) == IF v = 1 THEN NullUrl ELSE EmptyUrl

\* `https://drive.google.com/file/d/${fileId}/view`
FileUrl(fileId) == [base |-> "https://drive.google.com/file/d/", id |-> fileId]

IsFileUrl(u) == u \notin {NullUrl, EmptyUrl}

FileIdOf(u) == u.id

UploadOps == {"create", "update", "permit"}

\* Variation: an upload error is swallowed and the handler goes on to insert.
AfterFailureSwallowUpload(op) == IF op \in UploadOps THEN "insert" ELSE "done"

\* Variation: an insert error is swallowed and the handler goes on to notify.
AfterFailureSwallowInsert(op) == IF op = "insert" THEN "mail" ELSE "done"

\* Variation: the failed call is made again.
AfterFailureRetry(op) == op

\* catch (err) { ... res.status(500) }: where a request goes when an awaited
\* call throws: every await of a handler sits in its one try block.
AfterFailure(op) == "done"

\* Variation: variants 2 and 3 treat the mail as best effort.
StatusBestEffortMail(v, op) == IF op = "mail" /\ v # 1 THEN 200 ELSE 500

\* What the catch block answers: res.status(500) in all six handlers.
StatusOnThrow(v, op) == 500

\* The call that follows `op` in the plan, or "done" after the last.
NextOp(plan, op) ==
    IF \E j \in 1..(Len(plan) - 1) : plan[j] = op
      THEN plan[(CHOOSE j \in 1..(Len(plan) - 1) : plan[j] = op) + 1]
      ELSE "done"

FirstOp(plan) == plan[1]

-----------------------------------------------------------------------------
(* State *)

NoTries == [o \in Ops |-> 0]

NewReq(ip, kind, fieldsOk, file, mime, pc, status) ==
    [ip |-> ip, at |-> now,
     kind |-> kind, fieldsOk |-> fieldsOk, file |-> file, mime |-> mime,
     pc |-> pc, status |-> status,
     fileId |-> 0, url |-> NoFileUrl(variant),
     tried |-> NoTries, failed |-> "none"]

Env(m, f, q) == [emailTo |-> m, folderId |-> f, folderQuejasId |-> q]

\* Everything set, or only the complaints folder and no recipient.
Envs == {Env(TRUE, TRUE, TRUE), Env(FALSE, FALSE, TRUE)}

AllSet == Env(TRUE, TRUE, TRUE)

\* Variants 1 and 2 never branch on these settings (they only pass them on to
\* calls whose outcome is left open), so they run with all of them set.
Init ==
    /\ variant \in Variants
    /\ env \in Envs
    /\ (variant # 3 => env = AllSet)
    /\ now = 0
    /\ hits = EmptyMap
    /\ arrivals = EmptyMap
    /\ forwarded = EmptyMap
    /\ throttled = EmptyMap
    /\ reqs = <<>>
    /\ postulaciones = <<>>
    /\ quejas = <<>>
    /\ drive = EmptyMap
    /\ outbox = <<>>
    /\ uuids = 0

Rids == 1..Len(reqs)

PlanOf(r) == Plan(variant, reqs[r].kind, env, reqs[r].file)

TableOf(kind) == IF kind = "formulario" THEN postulaciones ELSE quejas

-----------------------------------------------------------------------------
(* Actions *)

\* app.use((req, res, next) => {...}) of variant 1; variants 2 and 3 have no
\* limiter and every request goes on to its route.
Throttles(k) == HasLimiter(variant) /\ OverLimit(HitsAfter(hits, k), k)

Middleware(k) ==
    /\ hits' = IF HasLimiter(variant) THEN HitsAfter(hits, k) ELSE hits
    /\ arrivals' = MapSet(arrivals, k, MapGet(arrivals, k) + 1)
    /\ IF Throttles(k)
         THEN /\ throttled' = MapSet(throttled, k, MapGet(throttled, k) + 1)
              /\ forwarded' = forwarded
         ELSE /\ forwarded' = MapSet(forwarded, k, MapGet(forwarded, k) + 1)
              /\ throttled' = throttled

\* POST /api/formulario or /api/quejas arrives with a file of type `mime`
\* (NoMime without a file): the middleware runs, then multer reads the body
\* and applies its filter before the handler is called.
ArriveTyped(ip, kind, fieldsOk, file, mime) ==
    LET k == LimiterKey(ip, now)
        passed == IF HasLimiter(variant) THEN AfterLimiter(Throttles(k)) ELSE "handler"
        rejected == FilterRejects(variant, file, mime)
        pc == IF passed = "handler" THEN AfterMulter(rejected) ELSE passed
        status == IF Throttles(k) THEN 429
                  ELSE IF passed = "handler" /\ pc = "done"
                         THEN StatusOnFilterError(variant)
                  ELSE 0
    IN /\ Middleware(k)
       /\ reqs' = Append(reqs, NewReq(ip, kind, fieldsOk, file, mime, pc, status))
       /\ UNCHANGED <<variant, env, now, postulaciones, quejas, drive,
                      outbox, uuids>>

\* The same with an attachment, if any, of a type every variant takes.
Arrive(ip, kind, fieldsOk, file) ==
    ArriveTyped(ip, kind, fieldsOk, file, IF file THEN "application/pdf" ELSE NoMime)

\* The handler runs from its first line to its first await.
Handle(r) ==
    /\ reqs[r].pc = "handler"
    /\ IF Rejects(variant, reqs[r].kind, reqs[r].fieldsOk, reqs[r].file)
         THEN reqs' = [reqs EXCEPT ![r].pc = "done", ![r].status = 400]
         ELSE reqs' = [reqs EXCEPT ![r].pc = FirstOp(PlanOf(r))]
    /\ UNCHANGED <<variant, env, now, hits, arrivals, forwarded, throttled,
                   postulaciones, quejas, drive, outbox, uuids>>

\* The record of r after its awaited call `op` returned (ok) or threw.
Resume(r, op, ok, fileId, url) ==
    LET nxt == IF ok THEN NextOp(PlanOf(r), op) ELSE AfterFailure(op)
    IN [reqs EXCEPT
          ![r].tried[op] = @ + 1,
          ![r].pc = nxt,
          ![r].fileId = fileId,
          ![r].url = url,
          ![r].failed = IF ok THEN @ ELSE op,
          ![r].status = IF nxt # "done" THEN @
                        ELSE IF ok THEN 200 ELSE StatusOnThrow(variant, op)]

\* await drive.files.create(...)
DriveCreate(r, ok) ==
    LET id == Cardinality(DOMAIN drive) + 1
    IN /\ reqs[r].pc = "create"
       /\ drive' = IF ok THEN MapSet(drive, id, [parent |-> variant = 1, public |-> FALSE])
                         ELSE drive
       /\ reqs' = Resume(r, "create", ok, IF ok THEN id ELSE 0, reqs[r].url)
       /\ UNCHANGED <<variant, env, now, hits, arrivals, forwarded, throttled,
                      postulaciones, quejas, outbox, uuids>>

\* await drive.files.update({ fileId, addParents })
DriveUpdate(r, ok) ==
    /\ reqs[r].pc = "update"
    /\ drive' = IF ok THEN [drive EXCEPT ![reqs[r].fileId].parent = TRUE] ELSE drive
    /\ reqs' = Resume(r, "update", ok, reqs[r].fileId, reqs[r].url)
    /\ UNCHANGED <<variant, env, now, hits, arrivals, forwarded, throttled,
                   postulaciones, quejas, outbox, uuids>>

\* await drive.permissions.create({ fileId, role: 'reader', type: 'anyone' }),
\* after which the handler holds the file's URL.
DrivePermit(r, ok) ==
    /\ reqs[r].pc = "permit"
    /\ drive' = IF ok THEN [drive EXCEPT ![reqs[r].fileId].public = TRUE] ELSE drive
    /\ reqs' = Resume(r, "permit", ok, reqs[r].fileId,
                      IF ok THEN FileUrl(reqs[r].fileId) ELSE reqs[r].url)
    /\ UNCHANGED <<variant, env, now, hits, arrivals, forwarded, throttled,
                   postulaciones, quejas, outbox, uuids>>

\* Variation: the id is derived from the submitted fields, so a repeated
\* submission gets the id of the first.
RowIdFromFields(v, table, n) == IF v = 1 THEN <<"uuid", 1>> ELSE 1

\* The id of the new row: genId() in variant 1, AUTOINCREMENT in 2 and 3.
RowId(v, table, n) == IF v = 1 THEN <<"uuid", n + 1>> ELSE Len(table) + 1

\* await db.execute({ sql: 'INSERT INTO ...', args })
DbInsert(r, ok) ==
    LET kind == reqs[r].kind
        row == [id |-> RowId(variant, TableOf(kind), uuids),
                url |-> reqs[r].url, req |-> r]
    IN /\ reqs[r].pc = "insert"
       /\ uuids' = IF variant = 1 THEN uuids + 1 ELSE uuids
       /\ postulaciones' = IF ok /\ kind = "formulario"
                             THEN Append(postulaciones, row) ELSE postulaciones
       /\ quejas' = IF ok /\ kind = "quejas" THEN Append(quejas, row) ELSE quejas
       /\ reqs' = Resume(r, "insert", ok, reqs[r].fileId, reqs[r].url)
       /\ UNCHANGED <<variant, env, now, hits, arrivals, forwarded, throttled,
                      drive, outbox>>

\* await sendMail(...) / await enviarCorreo(...)
SendMail(r, ok) ==
    /\ reqs[r].pc = "mail"
    /\ outbox' = IF ok THEN Append(outbox, r) ELSE outbox
    /\ reqs' = Resume(r, "mail", ok, reqs[r].fileId, reqs[r].url)
    /\ UNCHANGED <<variant, env, now, hits, arrivals, forwarded, throttled,
                   postulaciones, quejas, drive, uuids>>

\* A submission of a run that stays far below the limit.
Submit(kind, fieldsOk, file) ==
    /\ Len(reqs) < MaxReq
    /\ Arrive("ip1", kind, fieldsOk, file)

\* The submissions a run draws from: req.body with every required field
\* filled or with one left empty, req.file present or absent.
Form(kind, fieldsOk, file) == [kind |-> kind, fieldsOk |-> fieldsOk, file |-> file]

Forms == {Form("formulario", TRUE, TRUE), Form("formulario", TRUE, FALSE),
          Form("formulario", FALSE, TRUE),
          Form("quejas", TRUE, TRUE), Form("quejas", TRUE, FALSE),
          Form("quejas", FALSE, FALSE)}

Next ==
    \/ \E f \in Forms : Submit(f.kind, f.fieldsOk, f.file)
    \/ \E r \in Rids : Handle(r)
    \/ \E r \in Rids, ok \in BOOLEAN : DriveCreate(r, ok)
    \/ \E r \in Rids, ok \in BOOLEAN : DriveUpdate(r, ok)
    \/ \E r \in Rids, ok \in BOOLEAN : DrivePermit(r, ok)
    \/ \E r \in Rids, ok \in BOOLEAN : DbInsert(r, ok)
    \/ \E r \in Rids, ok \in BOOLEAN : SendMail(r, ok)

\* The three programs under a handful of submissions.
Spec == Init /\ [][Next]_vars

-----------------------------------------------------------------------------
(* The limiter under load: variant 1 receiving a burst.                     *)
(* The run opens with WarmUp requests from one address within one minute,   *)
(* none of them a submission; after the burst any address may send, the     *)
(* clock may move, and submissions arrive among the other requests.         *)

Warming == 0 < MapSum(arrivals) /\ MapSum(arrivals) < WarmUp

\* Every move of the clock adds a minute or an hour, so this counts the moves.
TicksTaken(t) == (t \div MinutesPerHour) + (t % MinutesPerHour)

\* The clock moves on: by a minute, or by an hour.
Tick(d) ==
    /\ ~Warming
    /\ TicksTaken(now) < MaxTicks
    /\ now' = now + d
    /\ UNCHANGED <<variant, env, hits, arrivals, forwarded, throttled, reqs,
                   postulaciones, quejas, drive, outbox, uuids>>

\* A request that no submission handler serves (a static file, an unknown
\* route): the middleware, then nothing the model records.
ArriveOther(ip) ==
    /\ MapSum(arrivals) < MaxArrivals
    /\ Warming => LimiterKey(ip, now) \in DOMAIN arrivals
    /\ Middleware(LimiterKey(ip, now))
    /\ UNCHANGED <<variant, env, now, reqs, postulaciones, quejas, drive,
                   outbox, uuids>>

\* A submission that arrives after the opening burst.
ArriveLoaded(ip, kind, fieldsOk, file) ==
    /\ Len(reqs) < MaxLoaded
    /\ MapSum(arrivals) >= WarmUp
    /\ MapSum(arrivals) < MaxArrivals
    /\ Arrive(ip, kind, fieldsOk, file)

InitLimiter == Init /\ variant = 1

NextLimiter ==
    \/ \E d \in TickSteps : Tick(d)
    \/ \E ip \in Ips : ArriveOther(ip)
    \/ \E ip \in Ips, kind \in Kinds : ArriveLoaded(ip, kind, TRUE, TRUE)
    \/ \E r \in Rids : Handle(r)
    \/ \E r \in Rids, ok \in BOOLEAN : DriveCreate(r, ok)
    \/ \E r \in Rids, ok \in BOOLEAN : DrivePermit(r, ok)
    \/ \E r \in Rids, ok \in BOOLEAN : DbInsert(r, ok)
    \/ \E r \in Rids, ok \in BOOLEAN : SendMail(r, ok)

SpecLimiter == InitLimiter /\ [][NextLimiter]_vars

-----------------------------------------------------------------------------
(* The limiter across the hours: variant 1 receiving the same burst, with   *)
(* submissions that its handler turns away at once (a required field is     *)
(* missing), before and after the clock has moved.                          *)

ArriveProbe(ip, kind) ==
    /\ Len(reqs) < MaxProbes
    /\ MapSum(arrivals) >= WarmUp
    /\ MapSum(arrivals) < MaxArrivals
    /\ Arrive(ip, kind, FALSE, FALSE)

NextHours ==
    \/ \E d \in TickSteps : Tick(d)
    \/ \E ip \in Ips : ArriveOther(ip)
    \/ \E ip \in Ips, kind \in Kinds : ArriveProbe(ip, kind)
    \/ \E r \in Rids : Handle(r)

SpecHours == InitLimiter /\ [][NextHours]_vars

-----------------------------------------------------------------------------
(* Attachments of any type: the three programs receiving complete           *)
(* submissions whose file is of a whitelisted type or of another.           *)

SubmitTyped(kind, mime) ==
    /\ Len(reqs) < MaxTyped
    /\ ArriveTyped("ip1", kind, TRUE, TRUE, mime)

NextTyped ==
    \/ \E kind \in Kinds, mime \in MimeTypes : SubmitTyped(kind, mime)
    \/ \E r \in Rids : Handle(r)
    \/ \E r \in Rids, ok \in BOOLEAN : DriveCreate(r, ok)
    \/ \E r \in Rids, ok \in BOOLEAN : DriveUpdate(r, ok)
    \/ \E r \in Rids, ok \in BOOLEAN : DrivePermit(r, ok)
    \/ \E r \in Rids, ok \in BOOLEAN : DbInsert(r, ok)
    \/ \E r \in Rids, ok \in BOOLEAN : SendMail(r, ok)

SpecTyped == Init /\ [][NextTyped]_vars

-----------------------------------------------------------------------------
(* What the claims speak of *)

AllRows == {postulaciones[i] : i \in 1..Len(postulaciones)}
              \cup {quejas[i] : i \in 1..Len(quejas)}

RowsOf(r) == {row \in AllRows : row.req = r}

Mailed(r) == \E i \in 1..Len(outbox) : outbox[i] = r

Done(r) == reqs[r].pc = "done"

NoCalls(r) == \A op \in Ops : reqs[r].tried[op] = 0

NoUploadCalls(r) == \A op \in UploadOps : reqs[r].tried[op] = 0

NoEffects(r) == NoCalls(r) /\ reqs[r].fileId = 0 /\ RowsOf(r) = {} /\ ~Mailed(r)

Min(a, b) == IF a < b THEN a ELSE b

-----------------------------------------------------------------------------
\* C1: a submission with a required field missing or empty makes no Drive
\* call, no insert and no mail, and is answered 400.
\* Variants 2 and 3 have no such guard, so this fails of them.
C1_MissingFieldsRejected ==
    \A r \in Rids :
        ~reqs[r].fieldsOk =>
            /\ NoEffects(r)
            /\ Done(r) => reqs[r].status = 400

\* C2: every stored row with an attachment URL names a Drive file that was
\* created and made public before the insert was issued; no insert is issued
\* before the upload stage has run to its end.
C2_UploadThenPersist ==
    /\ \A row \in AllRows :
          IsFileUrl(row.url) =>
              /\ FileIdOf(row.url) \in DOMAIN drive
              /\ drive[FileIdOf(row.url)].public
    /\ \A r \in Rids :
          /\ reqs[r].pc \in UploadOps => reqs[r].tried["insert"] = 0
          /\ (reqs[r].file /\ (reqs[r].pc = "insert" \/ reqs[r].tried["insert"] > 0)) =>
                /\ reqs[r].tried["create"] = 1
                /\ reqs[r].tried["permit"] = 1
                /\ reqs[r].failed \notin UploadOps
                /\ reqs[r].fileId \in DOMAIN drive
                /\ drive[reqs[r].fileId].public
                /\ reqs[r].url = FileUrl(reqs[r].fileId)

C2_Witness ==
    \E row \in AllRows :
        /\ IsFileUrl(row.url)
        /\ reqs[row.req].file
        /\ drive[FileIdOf(row.url)].public

\* C3: when a call of the upload stage fails, the request ends at once with
\* a 500, no insert and no mail are attempted, and no row of it exists.
C3_UploadFailureAborts ==
    \A r \in Rids :
        reqs[r].failed \in UploadOps =>
            /\ Done(r)
            /\ reqs[r].status = 500
            /\ reqs[r].tried["insert"] = 0
            /\ reqs[r].tried["mail"] = 0
            /\ RowsOf(r) = {}
            /\ ~Mailed(r)

C3_Witness ==
    \E r \in Rids :
        /\ reqs[r].failed = "permit"
        /\ reqs[r].status = 500
        /\ reqs[r].fileId \in DOMAIN drive

\* C4: on every key the limiter has passed on exactly the first 60 requests
\* and answered 429 to every later one.
C4_Threshold ==
    \A k \in DOMAIN arrivals :
        /\ MapGet(forwarded, k) = Min(arrivals[k], 60)
        /\ MapGet(throttled, k) = arrivals[k] - Min(arrivals[k], 60)

C4_Witness ==
    \E k \in DOMAIN arrivals :
        /\ arrivals[k] = 61
        /\ MapGet(forwarded, k) = 60
        /\ MapGet(throttled, k) = 1

\* C5 as claimed: a valid job application without attachment makes no Drive
\* call, goes on to the insert, and its row holds the empty string as URL.
C5_NoFileEmptyUrl ==
    \A r \in Rids :
        (reqs[r].kind = "formulario" /\ reqs[r].fieldsOk /\ ~reqs[r].file
            /\ reqs[r].status # 429) =>
            /\ NoUploadCalls(r)
            /\ reqs[r].pc # "handler" =>
                  (reqs[r].pc = "insert" \/ reqs[r].tried["insert"] = 1)
            /\ \A row \in RowsOf(r) : row.url = EmptyUrl

\* C5 as amended: a valid job application without attachment makes no Drive
\* call; in variants 1 and 3 it goes on to the insert and its row holds the
\* empty URL value (null in variant 1, the empty string in variant 3); in
\* variant 2 it is answered 400 and makes no call at all.
C5_NoFileByVariant ==
    \A r \in Rids :
        (reqs[r].kind = "formulario" /\ reqs[r].fieldsOk /\ ~reqs[r].file
            /\ reqs[r].status # 429) =>
            /\ NoUploadCalls(r)
            /\ reqs[r].fileId = 0
            /\ variant \in {1, 3} =>
                  /\ reqs[r].pc # "handler" =>
                        (reqs[r].pc = "insert" \/ reqs[r].tried["insert"] = 1)
                  /\ \A row \in RowsOf(r) :
                        row.url = IF variant = 1 THEN NullUrl ELSE EmptyUrl
            /\ variant = 2 =>
                  /\ NoEffects(r)
                  /\ reqs[r].pc \in {"handler", "done"}
                  /\ Done(r) => reqs[r].status = 400

C5_Witness ==
    \E r \in Rids :
        /\ reqs[r].kind = "formulario" /\ reqs[r].fieldsOk /\ ~reqs[r].file
        /\ variant = 1
        /\ \E row \in RowsOf(r) : row.url = NullUrl

\* C6: when the insert fails, the request ends with a 500 and no mail; a file
\* it uploaded stays on Drive, public, with no row that refers to it.  No file
\* a handler ever created leaves Drive or loses its public grant.
C6_PersistFailureLeavesOrphan ==
    \A r \in Rids :
        /\ reqs[r].failed = "insert" =>
              /\ Done(r)
              /\ reqs[r].status = 500
              /\ reqs[r].tried["mail"] = 0
              /\ ~Mailed(r)
              /\ RowsOf(r) = {}
              /\ reqs[r].file =>
                    /\ reqs[r].fileId \in DOMAIN drive
                    /\ drive[reqs[r].fileId].public
                    /\ \A row \in AllRows : row.url # FileUrl(reqs[r].fileId)
        /\ reqs[r].fileId # 0 => reqs[r].fileId \in DOMAIN drive
        /\ IsFileUrl(reqs[r].url) => drive[reqs[r].fileId].public

C6_Witness ==
    \E r \in Rids :
        /\ reqs[r].failed = "insert"
        /\ reqs[r].file
        /\ drive[reqs[r].fileId].public
        /\ \A row \in AllRows : row.url # FileUrl(reqs[r].fileId)

\* C7 as claimed: in at least two of the three variants a request whose mail
\* fails after its row was inserted is answered 200.  Of a run of one variant
\* this says: the failed request was answered 200, or else both other
\* variants answer 200 in its place.
C7_NotifyFailureNotFatal ==
    \A r \in Rids :
        (reqs[r].failed = "mail" /\ Done(r)) =>
            \/ reqs[r].status = 200
            \/ \A v \in Variants \ {variant} : StatusOnThrow(v, "mail") = 200

\* C7 as amended: in all three variants a request whose mail fails after its
\* row was inserted is answered 500; the row stays stored.
C7_NotifyFailureFatal ==
    \A r \in Rids :
        reqs[r].failed = "mail" =>
            /\ Done(r)
            /\ reqs[r].status = 500
            /\ Cardinality(RowsOf(r)) = 1
            /\ ~Mailed(r)

C7_Witness ==
    \E r \in Rids :
        /\ reqs[r].failed = "mail"
        /\ variant = 3
        /\ reqs[r].status = 500
        /\ RowsOf(r) # {}

\* C8 as claimed: within one request every external call is attempted at
\* most once, a failed call ends the request, and a successful submission
\* with an attachment has attempted each of them exactly once (variant 1
\* sets the parent folder within its create call).
C8_ExactlyOnce ==
    \A r \in Rids :
        /\ \A op \in Ops : reqs[r].tried[op] <= 1
        /\ reqs[r].failed # "none" => (Done(r) /\ reqs[r].tried[reqs[r].failed] = 1)
        /\ (reqs[r].status = 200 /\ reqs[r].file) =>
              /\ reqs[r].tried["create"] = 1
              /\ (variant = 1 \/ reqs[r].tried["update"] = 1)
              /\ reqs[r].tried["permit"] = 1
              /\ reqs[r].tried["insert"] = 1
              /\ reqs[r].tried["mail"] = 1

\* C8 as amended: every external call is attempted at most once and a failed
\* call ends the request; a successful submission with an attachment has
\* attempted create, grant and insert exactly once, the separate set-parent
\* call exactly once in variant 2 and in variant 3 with a folder configured
\* and never otherwise, and the mail exactly once unless variant 3 runs
\* without EMAIL_TO, where no mail is attempted.
C8_AtMostOnce ==
    \A r \in Rids :
        /\ \A op \in Ops : reqs[r].tried[op] <= 1
        /\ reqs[r].failed # "none" => (Done(r) /\ reqs[r].tried[reqs[r].failed] = 1)
        /\ (reqs[r].status = 200 /\ reqs[r].file) =>
              /\ reqs[r].tried["create"] = 1
              /\ reqs[r].tried["update"] =
                    (IF variant = 2 \/ (variant = 3 /\ FolderSet(reqs[r].kind, env))
                       THEN 1 ELSE 0)
              /\ reqs[r].tried["permit"] = 1
              /\ reqs[r].tried["insert"] = 1
              /\ reqs[r].tried["mail"] = (IF variant = 3 /\ ~env.emailTo THEN 0 ELSE 1)

C8_Witness ==
    \E r \in Rids :
        /\ reqs[r].status = 200
        /\ reqs[r].file
        /\ variant = 3
        /\ ~env.emailTo
        /\ reqs[r].tried["mail"] = 0
        /\ \E q \in Rids : reqs[q].failed = "insert"

\* C9: a request the limiter answers 429 never reaches a handler: it makes no
\* call and leaves no file, row or mail; and the counter of a key counts the
\* rejected requests along with the ones passed on.
C9_ThrottledNeverHandled ==
    /\ \A r \in Rids :
          reqs[r].status = 429 => (Done(r) /\ NoEffects(r))
    /\ \A k \in DOMAIN arrivals :
          MapGet(hits, k) = MapGet(forwarded, k) + MapGet(throttled, k)

C9_Witness ==
    \E r \in Rids :
        /\ reqs[r].status = 429
        /\ reqs[r].file
        /\ \E k \in DOMAIN hits : hits[k] > Limit /\ MapGet(throttled, k) >= 1

\* C10: with handlers suspended at their awaits while further requests
\* arrive, the counter of every key equals the number of requests received
\* on that key, and no key has more than 60 requests passed on.
C10_NoLostUpdate ==
    /\ DOMAIN hits = DOMAIN arrivals
    /\ \A k \in DOMAIN arrivals :
          /\ hits[k] = arrivals[k]
          /\ MapGet(forwarded, k) <= Limit

C10_Witness ==
    \E r \in Rids :
        /\ reqs[r].pc \in {"permit", "insert", "mail"}
        /\ \E k \in DOMAIN hits : hits[k] = Limit + 1 /\ MapGet(throttled, k) = 1

\* The ids of the rows of one table, in insertion order.
IdsOf(table) == [i \in 1..Len(table) |-> table[i].id]

Distinct(seq) == \A i, j \in 1..Len(seq) : i # j => seq[i] # seq[j]

SameForm(r, q) ==
    /\ reqs[r].kind = reqs[q].kind
    /\ reqs[r].fieldsOk = reqs[q].fieldsOk
    /\ reqs[r].file = reqs[q].file

\* C11: every submission answered 200 has inserted exactly one row, the
\* identifiers of the rows of a table are pairwise distinct (so each insert
\* took an identifier no stored row of its table had), and two submissions of
\* the same form that were both answered 200 have left two rows with two
\* identifiers.
C11_NotIdempotent ==
    /\ \A r \in Rids : reqs[r].status = 200 => Cardinality(RowsOf(r)) = 1
    /\ Distinct(IdsOf(postulaciones))
    /\ Distinct(IdsOf(quejas))
    /\ \A r, q \in Rids :
          (r # q /\ SameForm(r, q) /\ reqs[r].status = 200 /\ reqs[q].status = 200) =>
              \A x \in RowsOf(r), y \in RowsOf(q) : x # y /\ x.id # y.id

C11_Witness ==
    \E r, q \in Rids :
        /\ r # q
        /\ SameForm(r, q)
        /\ reqs[r].status = 200
        /\ reqs[q].status = 200
        /\ \E x \in RowsOf(r), y \in RowsOf(q) : x.id # y.id /\ x.url # y.url

ClientError(status) == status \in 400..499

\* C12: a submission whose attachment is of a mimetype the whitelist does not
\* hold makes no Drive call, no insert and no mail, and is answered with a
\* 4xx status.
\* Variant 1 answers it 500; variants 2 and 3 have no whitelist and process it.
C12_UnsupportedTypeClientError ==
    \A r \in Rids :
        (reqs[r].file /\ reqs[r].mime \notin Whitelist) =>
            /\ NoEffects(r)
            /\ Done(r) => ClientError(reqs[r].status)

\* One step of the limiter's map: no key leaves it, no counter goes down, and
\* a key whose counter is above 60 passes no request on: what arrives on it is
\* answered 429.
HitsStep ==
    \A k \in DOMAIN hits :
        /\ k \in DOMAIN hits'
        /\ hits'[k] >= hits[k]
        /\ hits[k] > 60 =>
              /\ MapGet(forwarded', k) = MapGet(forwarded, k)
              /\ MapGet(throttled', k) - MapGet(throttled, k) = hits'[k] - hits[k]

SameBucket(r, q) ==
    /\ reqs[r].ip = reqs[q].ip
    /\ reqs[r].at % 60 = reqs[q].at % 60

\* C13: the limiter never removes a key and never lowers a counter; once the
\* counter of an address and minute of the hour is above 60, every later
\* request of that address in that minute of any hour is answered 429.
C13_NeverReset ==
    /\ [][HitsStep]_vars
    /\ [](\A r, q \in Rids :
            (r < q /\ SameBucket(r, q) /\ reqs[r].status = 429) =>
                reqs[q].status = 429)

C13_Witness ==
    \E r, q \in Rids :
        /\ r < q
        /\ SameBucket(r, q)
        /\ reqs[r].at < reqs[q].at
        /\ reqs[r].status = 429
        /\ reqs[q].status = 429
        /\ hits[LimiterKey(reqs[q].ip, reqs[q].at)] > 61

====
